---------------------------- MODULE Spec2Model ----------------------------
(***************************************************************************)
(* Gesture Warriors: the gesture stabilizer (gesture_recognition.py), the  *)
(* hold-to-confirm detector (feedback_module.py), the game state machine   *)
(* (game_engine.py) and the driver loop (main.py).                         *)
(*                                                                         *)
(* Time.  The code reads time.time() and only ever compares                *)
(* "now - stamp" with a constant.  One time unit of the model is 0.1 s,    *)
(* and for every time stamp X of the code the model keeps X_ago, the       *)
(* time elapsed since X (now - X), saturated at the constant it is         *)
(* compared with.  A stamp set to "now" is an X_ago of 0.                  *)
(*                                                                         *)
(* Confidence.  count / len(window) is kept exactly, in sixtieths          *)
(* (60 is divisible by every window length 1..5); 0.6 is 36 sixtieths.     *)
(***************************************************************************)
EXTENDS Integers, Sequences, FiniteSets, TLC

VARIABLES
    rec,             \* the GestureRecognizer object
    fb,              \* the FeedbackModule object
    ge,              \* the GameEngine object
    highscore_file,  \* content of HIGHSCORE_FILE
    events,          \* pygame's event queue: the QUIT / KEYDOWN events posted and not yet read
    pc,              \* where main() is: "loop", "cleanup", "exited"
    op,              \* the last operation carried out
    obs              \* what an observer of the run has seen (history variable):
                     \*   stable_for   time since current_gesture last changed (since construction)
                     \*   held_gesture the gesture last given to provide_visual_feedback
                     \*   held_for     time since that gesture last differed from the one before
                     \*   fired        how often gesture_confirmed was set since then (2: more)
                     \*   acts         how often update consumed a confirmation since then (2: more)
                     \*   transitions  how many transitions update has started
                     \*   hand         the hand in the frame last given to process_frame

vars == <<rec, fb, ge, highscore_file, events, pc, op, obs>>

----------------------------------------------------------------------------
(* Bounds of the model *)

\* the first NumRawLabels labels of LabelOrder are fed to _stabilize_gesture
NumRawLabels == 3
\* the time one iteration of the driver loop takes (clock.tick), in time units
FrameTime == 1
\* the time one iteration of the loop of main() takes when the camera is read
LoopTime == 2
\* at most MaxTransitions changes of game state are started in a run of the loop
MaxTransitions == 2
\* at most MaxRounds rounds are played between two visits of the menu
MaxRounds == 1
\* the high score file is missing or holds one of 1..MaxStored
MaxStored == 1
\* the texts HIGHSCORE_FILE can hold at a start-up are those of up to MaxLen characters
MaxLen == 2
\* at most MaxFrames frames are given to process_frame
MaxFrames == 2

----------------------------------------------------------------------------
(* Program constants *)

\* self.history_size
HistorySize == 5
\* self.min_gesture_duration = 0.3 s
MinGestureDuration == 3
\* confidence >= 0.6, in sixtieths
ConfThreshold == 36
\* self.hold_threshold = 1.0 s
HoldThreshold == 10
\* MENU_COOLDOWN = 0.5 s
MENU_COOLDOWN == 5
\* RESULT_DELAY = 2.0 s
RESULT_DELAY == 20
\* TRANSITION_SPEED: alpha change per frame
TRANSITION_SPEED == 5
\* the alpha at which a transition ends
AlphaMax == 255
\* PLAYER_HISTORY_SIZE: maxlen of player_choice_history
PLAYER_HISTORY_SIZE == 5

\* Python's None
PyNone == "PyNone"

STATE_MENU == "MENU"
STATE_PLAYING == "PLAYING"
STATE_RESULT == "RESULT"
STATE_TRANSITION == "TRANSITION"
DIFF_EASY == "Easy"
DIFF_HARD == "Hard"

Min(a, b) == IF a < b THEN a ELSE b

\* the labels recognize_gesture / process_frame can produce
LabelOrder == <<"Fist", "Open Palm", "Peace Sign", "Thumbs Up", "None", "Unknown">>

Labels == {LabelOrder[i] : i \in 1..Len(LabelOrder)}

RawLabels == {LabelOrder[i] : i \in 1..Min(NumRawLabels, Len(LabelOrder))}

----------------------------------------------------------------------------
(* GestureRecognizer *)

\* what MediaPipe finds in a frame: no hand, or a hand whose five fingers
\* (thumb, index, middle, ring, pinky) are extended or not
NoHand == [detected |-> FALSE, extended |-> <<FALSE, FALSE, FALSE, FALSE, FALSE>>]

Hands == {NoHand} \cup {[detected |-> TRUE, extended |-> e] : e \in [1..5 -> BOOLEAN]}

\* a classification that takes index and middle for a Peace Sign whatever the thumb
ClassifyPeaceAnyThumb(extended_fingers) ==
    IF \A i \in 1..5 : extended_fingers[i] THEN "Open Palm"
    ELSE IF ~ \E i \in 1..5 : extended_fingers[i] THEN "Fist"
    ELSE IF extended_fingers[1] /\ ~ \E i \in 2..5 : extended_fingers[i]
    THEN "Thumbs Up"
    ELSE IF /\ extended_fingers[2] /\ extended_fingers[3]
            /\ ~ extended_fingers[4] /\ ~ extended_fingers[5]
    THEN "Peace Sign"
    ELSE "Unknown"

\* GestureRecognizer.recognize_gesture, from extended_fingers on
Classify(extended_fingers) ==
    IF \A i \in 1..5 : extended_fingers[i] THEN "Open Palm"
    ELSE IF ~ \E i \in 1..5 : extended_fingers[i] THEN "Fist"
    ELSE IF extended_fingers[1] /\ ~ \E i \in 2..5 : extended_fingers[i]
    THEN "Thumbs Up"
    ELSE IF /\ ~ extended_fingers[1] /\ extended_fingers[2] /\ extended_fingers[3]
            /\ ~ extended_fingers[4] /\ ~ extended_fingers[5]
    THEN "Peace Sign"
    ELSE "Unknown"

\* detected_gesture of process_frame
DetectedGesture(hand) ==
    IF hand.detected THEN Classify(hand.extended) ELSE "None"

\* GestureRecognizer.__init__
RecInit ==
    [ gesture_history        |-> <<>>,
      gesture_confidence     |-> [l \in {} |-> 0],   \* {}: a function on its keys
      current_gesture        |-> "None",
      prev_gesture           |-> "None",
      last_gesture_time_ago  |-> 0 ]

\* gesture_counts[gesture] of the window h (0: not a key)
Count(l, h) == Cardinality({i \in 1..Len(h) : h[i] = l})

\* a confidence that divides by history_size instead of the length of the window
ConfidenceOfFive(l, h) == (Count(l, h) * 60) \div HistorySize

\* count / len(self.gesture_history), in sixtieths
Confidence(l, h) == (Count(l, h) * 60) \div Len(h)

\* index of the first occurrence of l in h: the insertion order of gesture_counts
FirstIndex(l, h) == CHOOSE i \in 1..Len(h) : h[i] = l /\ \A j \in 1..(i-1) : h[j] # l

\* max(gesture_counts, key=gesture_counts.get): the first key, in insertion
\* order, with the largest count
MostCommon(h) ==
    CHOOSE l \in {h[i] : i \in 1..Len(h)} :
        /\ \A m \in {h[i] : i \in 1..Len(h)} : Count(m, h) <= Count(l, h)
        /\ \A m \in {h[i] : i \in 1..Len(h)} :
              Count(m, h) = Count(l, h) => FirstIndex(l, h) <= FirstIndex(m, h)

\* self.gesture_history.append(...); pop(0) when longer than history_size
PushWindow(h, raw) ==
    LET h1 == Append(h, raw)
    IN  IF Len(h1) > HistorySize THEN Tail(h1) ELSE h1

\* the loop that writes self.gesture_confidence: only the labels of the window
UpdateConfidence(conf, h) ==
    LET present == {h[i] : i \in 1..Len(h)}
    IN  [l \in (DOMAIN conf) \cup present |->
            IF l \in present THEN Confidence(l, h) ELSE conf[l]]

\* a switch condition that is content with half of the window
SwitchCondHalf(r, h) ==
    /\ 2 * Confidence(MostCommon(h), h) >= 60
    /\ MostCommon(h) # r.current_gesture
    /\ r.last_gesture_time_ago >= MinGestureDuration

\* a switch condition that leaves out the minimum duration
SwitchCondNoTime(r, h) ==
    /\ Confidence(MostCommon(h), h) >= ConfThreshold
    /\ MostCommon(h) # r.current_gesture

\* a switch condition that leaves out the confidence
SwitchCondNoConf(r, h) ==
    /\ MostCommon(h) # r.current_gesture
    /\ r.last_gesture_time_ago >= MinGestureDuration

\* a switch condition that asks for a confidence above the threshold
SwitchCondStrict(r, h) ==
    /\ Confidence(MostCommon(h), h) > ConfThreshold
    /\ MostCommon(h) # r.current_gesture
    /\ r.last_gesture_time_ago >= MinGestureDuration

\* the condition under which the stable label is switched to most_common
SwitchCond(r, h) ==
    /\ Confidence(MostCommon(h), h) >= ConfThreshold
    /\ MostCommon(h) # r.current_gesture
    /\ r.last_gesture_time_ago >= MinGestureDuration

\* GestureRecognizer._stabilize_gesture(detected_gesture): the object afterwards;
\* the value returned is its current_gesture
Stabilize(r, raw) ==
    LET h    == PushWindow(r.gesture_history, raw)
        conf == UpdateConfidence(r.gesture_confidence, h)
    IN  IF SwitchCond(r, h)
        THEN [ gesture_history       |-> h,
               gesture_confidence    |-> conf,
               current_gesture       |-> MostCommon(h),
               prev_gesture          |-> r.current_gesture,
               last_gesture_time_ago |-> 0 ]
        ELSE [ r EXCEPT !.gesture_history = h, !.gesture_confidence = conf ]

\* time.time() has advanced by dt since: now - last_gesture_time, saturated
RecElapse(r, dt) ==
    [ r EXCEPT !.last_gesture_time_ago = Min(@ + dt, MinGestureDuration) ]

----------------------------------------------------------------------------
(* FeedbackModule *)

\* FeedbackModule.__init__
FbInit ==
    [ last_gesture          |-> PyNone,
      gesture_confirmed     |-> FALSE,
      gesture_hold_time     |-> 0,
      last_gesture_time_ago |-> 0 ]

\* an else branch that confirms without comparing with hold_threshold
HoldNoThreshold(f) ==
    [ f EXCEPT !.gesture_hold_time = f.last_gesture_time_ago,
               !.gesture_confirmed = TRUE ]

\* an else branch that starts the hold time again when it confirms
HoldRestarts(f) ==
    LET hold == f.last_gesture_time_ago
    IN  [ f EXCEPT !.gesture_hold_time =
                        IF hold >= HoldThreshold /\ ~ f.gesture_confirmed THEN 0 ELSE hold,
                   !.gesture_confirmed =
                        IF hold >= HoldThreshold /\ ~ @ THEN TRUE ELSE @ ]

\* the else branch of provide_visual_feedback: the same gesture as on the last call
Hold(f) ==
    LET hold == f.last_gesture_time_ago
    IN  [ f EXCEPT !.gesture_hold_time = hold,
                   !.gesture_confirmed =
                        IF hold >= HoldThreshold /\ ~ @ THEN TRUE ELSE @ ]

\* the branch of provide_visual_feedback taken when the gesture has changed
Change(f, gesture) ==
    [ last_gesture          |-> gesture,
      gesture_confirmed     |-> FALSE,
      gesture_hold_time     |-> 0,
      last_gesture_time_ago |-> 0 ]

\* a provide_visual_feedback that keeps the flag when the gesture changes
ProvideVisualFeedbackKeepsFlag(f, gesture) ==
    IF gesture # f.last_gesture
    THEN [ Change(f, gesture) EXCEPT !.gesture_confirmed = f.gesture_confirmed ]
    ELSE Hold(f)

\* FeedbackModule.provide_visual_feedback(frame, gesture): the object afterwards
ProvideVisualFeedback(f, gesture) ==
    IF gesture # f.last_gesture THEN Change(f, gesture) ELSE Hold(f)

FbElapse(f, dt) ==
    [ f EXCEPT !.last_gesture_time_ago = Min(@ + dt, HoldThreshold) ]

----------------------------------------------------------------------------
(* GameEngine *)

\* self.menu_options, by index
MenuOptions == <<"Play Game", "Difficulty", "Exit">>

\* self.difficulty_options
DifficultyOptions == <<DIFF_EASY, DIFF_HARD>>

\* self.choices = list(self.gesture_map.values())
Choices == {"Rock", "Paper", "Scissors"}

\* a gesture_map that also gives the label "None" a choice
GestureMapWithNone ==
    [g \in {"Fist", "Open Palm", "Peace Sign", "None"} |->
        CASE g = "Fist" -> "Rock"
          [] g = "Open Palm" -> "Paper"
          [] g = "Peace Sign" -> "Scissors"
          [] g = "None" -> "Rock"]

\* self.gesture_map
GestureMap == [g \in {"Fist", "Open Palm", "Peace Sign"} |->
                 CASE g = "Fist" -> "Rock"
                   [] g = "Open Palm" -> "Paper"
                   [] g = "Peace Sign" -> "Scissors"]

\* self.win_counters: the choice that beats the key
WinCounters == [c \in Choices |->
                  CASE c = "Rock" -> "Paper"
                    [] c = "Paper" -> "Scissors"
                    [] c = "Scissors" -> "Rock"]

\* HIGHSCORE_FILE is [exists, text]: text is its content, a sequence of characters
NoFile == [exists |-> FALSE, text |-> <<>>]

FileOf(text) == [exists |-> TRUE, text |-> text]

DigitChars == <<"0", "1", "2", "3", "4", "5", "6", "7", "8", "9">>

IsDigit(c) == \E d \in 1..10 : DigitChars[d] = c

DigitValue(c) == (CHOOSE d \in 1..10 : DigitChars[d] = c) - 1

RECURSIVE StrNat(_)
\* the decimal digits of n >= 0
StrNat(n) ==
    IF n < 10 THEN <<DigitChars[n + 1]>>
    ELSE Append(StrNat(n \div 10), DigitChars[(n % 10) + 1])

\* a str(n) that writes the last digit only
StrUnits(n) == <<DigitChars[(n % 10) + 1]>>

\* str(n) of a Python int
Str(n) == IF n < 0 THEN <<"-">> \o StrNat(0 - n) ELSE StrNat(n)

IsSpace(c) == c \in {" ", "\n"}

RECURSIVE LStrip(_)
LStrip(t) == IF t # <<>> /\ IsSpace(Head(t)) THEN LStrip(Tail(t)) ELSE t

RECURSIVE RStrip(_)
RStrip(t) ==
    IF t # <<>> /\ IsSpace(t[Len(t)]) THEN RStrip(SubSeq(t, 1, Len(t) - 1)) ELSE t

\* str.strip()
Strip(t) == LStrip(RStrip(t))

RECURSIVE DigitsValue(_)
\* the number a non-empty sequence of digits denotes
DigitsValue(t) ==
    IF Len(t) = 1 THEN DigitValue(t[1])
    ELSE DigitsValue(SubSeq(t, 1, Len(t) - 1)) * 10 + DigitValue(t[Len(t)])

\* int(text) of a stripped text: [ok, value]; ok = FALSE is ValueError
ParseInt(t) ==
    LET signed == t # <<>> /\ t[1] \in {"-", "+"}
        digits == IF signed THEN Tail(t) ELSE t
    IN  IF digits # <<>> /\ \A i \in 1..Len(digits) : IsDigit(digits[i])
        THEN [ok |-> TRUE,
              value |-> IF signed /\ t[1] = "-" THEN 0 - DigitsValue(digits)
                        ELSE DigitsValue(digits)]
        ELSE [ok |-> FALSE, value |-> 0]

\* GameEngine._load_high_score
LoadHighScore(file) ==
    IF file.exists
    THEN LET parsed == ParseInt(Strip(file.text))
         IN  IF parsed.ok THEN parsed.value ELSE 0
    ELSE 0

\* GameEngine.__init__, with the content of HIGHSCORE_FILE
GeInit(file) ==
    [ current_state             |-> STATE_MENU,
      previous_state            |-> STATE_MENU,
      next_state                |-> PyNone,
      transition_alpha          |-> 0,
      selected_option           |-> 0,
      difficulty                |-> DIFF_EASY,
      is_selecting_difficulty   |-> FALSE,
      \* last_menu_change_time = 0, the epoch: longer ago than any cooldown
      last_menu_change_time_ago |-> MENU_COOLDOWN + 1,
      user_choice               |-> PyNone,
      computer_choice           |-> PyNone,
      result                    |-> PyNone,
      player_choice_history     |-> <<>>,
      \* timer = 0: timer_set is "self.timer > 0"
      timer_set                 |-> FALSE,
      timer_ago                 |-> RESULT_DELAY,
      user_score                |-> 0,
      computer_score            |-> 0,
      high_score                |-> LoadHighScore(file),
      new_highscore_achieved    |-> FALSE ]

\* The state the handlers of one tick work on: the engine, the feedback module
\* it holds a reference to, the high score file and the event queue.
World(g, f, file, ev) == [ge |-> g, fb |-> f, file |-> file, events |-> ev]

\* a save_high_score that writes nothing
SaveNothing(w) == w

\* GameEngine.save_high_score
SaveHighScore(w) == [w EXCEPT !.file = FileOf(Str(w.ge.high_score))]

\* an event.post that queues nothing
PostNothing(w) == w

\* pygame.event.post(pygame.event.Event(pygame.QUIT))
PostQuit(w) == [w EXCEPT !.events = TRUE]

\* self.feedback.gesture_confirmed = False
ClearConfirmed(w) == [w EXCEPT !.fb.gesture_confirmed = FALSE]

\* a _start_transition that leaves new_highscore_achieved alone
StartTransitionKeepsFlag(g, next_state) ==
    [ g EXCEPT !.previous_state = g.current_state,
               !.next_state = next_state,
               !.current_state = STATE_TRANSITION,
               !.transition_alpha = 0 ]

\* a _start_transition that also puts the difficulty back to Easy
StartTransitionEasy(g, next_state) ==
    [ g EXCEPT !.previous_state = g.current_state,
               !.next_state = next_state,
               !.current_state = STATE_TRANSITION,
               !.transition_alpha = 0,
               !.difficulty = DIFF_EASY,
               !.new_highscore_achieved =
                    IF g.current_state = STATE_RESULT THEN FALSE ELSE @ ]

\* GameEngine._start_transition
StartTransition(g, next_state) ==
    [ g EXCEPT !.previous_state = g.current_state,
               !.next_state = next_state,
               !.current_state = STATE_TRANSITION,
               !.transition_alpha = 0,
               !.new_highscore_achieved =
                    IF g.current_state = STATE_RESULT THEN FALSE ELSE @ ]

\* a state entry that keeps the scores of the previous game
EnterStateKeepsScores(g) ==
    IF g.current_state = STATE_PLAYING
    THEN LET g1 == [ g EXCEPT !.user_choice = PyNone,
                              !.computer_choice = PyNone,
                              !.result = PyNone ]
         IN  IF g.previous_state = STATE_MENU
             THEN [ g1 EXCEPT !.new_highscore_achieved = FALSE,
                              !.player_choice_history = <<>> ]
             ELSE g1
    ELSE IF g.current_state = STATE_RESULT
    THEN [ g EXCEPT !.timer_set = TRUE, !.timer_ago = 0 ]
    ELSE IF g.current_state = STATE_MENU
    THEN [ g EXCEPT !.is_selecting_difficulty = FALSE ]
    ELSE g

\* the state-entry part of _update_transition, g.current_state being the new state
EnterState(g) ==
    IF g.current_state = STATE_PLAYING
    THEN LET g1 == [ g EXCEPT !.user_choice = PyNone,
                              !.computer_choice = PyNone,
                              !.result = PyNone ]
         IN  IF g.previous_state = STATE_MENU
             THEN [ g1 EXCEPT !.user_score = 0,
                              !.computer_score = 0,
                              !.new_highscore_achieved = FALSE,
                              !.player_choice_history = <<>> ]
             ELSE g1
    ELSE IF g.current_state = STATE_RESULT
    THEN [ g EXCEPT !.timer_set = TRUE, !.timer_ago = 0 ]
    ELSE IF g.current_state = STATE_MENU
    THEN [ g EXCEPT !.is_selecting_difficulty = FALSE ]
    ELSE g

\* a _update_transition that leaves next_state set when the transition ends
UpdateTransitionKeepsNext(g) ==
    LET alpha == g.transition_alpha + TRANSITION_SPEED
    IN  IF alpha >= AlphaMax
        THEN EnterState([ g EXCEPT !.transition_alpha = AlphaMax,
                                   !.current_state = g.next_state ])
        ELSE [ g EXCEPT !.transition_alpha = alpha ]

\* a _update_transition that ends the transition only above 255
UpdateTransitionStrict(g) ==
    LET alpha == g.transition_alpha + TRANSITION_SPEED
    IN  IF alpha > AlphaMax
        THEN EnterState([ g EXCEPT !.transition_alpha = AlphaMax,
                                   !.current_state = g.next_state,
                                   !.next_state = PyNone ])
        ELSE [ g EXCEPT !.transition_alpha = alpha ]

\* GameEngine._update_transition
UpdateTransition(g) ==
    LET alpha == g.transition_alpha + TRANSITION_SPEED
    IN  IF alpha >= AlphaMax
        THEN EnterState([ g EXCEPT !.transition_alpha = AlphaMax,
                                   !.current_state = g.next_state,
                                   !.next_state = PyNone ])
        ELSE [ g EXCEPT !.transition_alpha = alpha ]

\* a _update_menu whose main menu cycles without looking at the cooldown
UpdateMenuNoCooldown(w, gesture) ==
    LET g == w.ge
        confirmed == w.fb.gesture_confirmed
        cooled == g.last_menu_change_time_ago > MENU_COOLDOWN
    IN
    IF g.is_selecting_difficulty
    THEN IF gesture = "Open Palm" /\ confirmed
         THEN IF cooled
              THEN ClearConfirmed(
                     [ w EXCEPT !.ge.difficulty =
                                   IF g.difficulty = DIFF_EASY THEN DIFF_HARD ELSE DIFF_EASY,
                                !.ge.last_menu_change_time_ago = 0 ])
              ELSE w
         ELSE IF gesture = "Thumbs Up" /\ confirmed
         THEN ClearConfirmed([ w EXCEPT !.ge.is_selecting_difficulty = FALSE ])
         ELSE IF gesture = "Peace Sign" /\ confirmed
         THEN ClearConfirmed([ w EXCEPT !.ge.is_selecting_difficulty = FALSE ])
         ELSE w
    ELSE IF gesture = "Open Palm" /\ confirmed
         THEN IF TRUE
              THEN ClearConfirmed(
                     [ w EXCEPT !.ge.selected_option = (@ + 1) % Len(MenuOptions),
                                !.ge.last_menu_change_time_ago = 0 ])
              ELSE w
         ELSE IF gesture = "Thumbs Up" /\ confirmed
         THEN LET selected_action == MenuOptions[g.selected_option + 1]
              IN  ClearConfirmed(
                    IF selected_action = "Play Game"
                    THEN [ w EXCEPT !.ge = StartTransition(g, STATE_PLAYING) ]
                    ELSE IF selected_action = "Difficulty"
                    THEN [ w EXCEPT !.ge.is_selecting_difficulty = TRUE,
                                    !.ge.last_menu_change_time_ago = 0 ]
                    ELSE PostQuit(SaveHighScore(w)))
         ELSE IF gesture = "Peace Sign" /\ confirmed
         THEN ClearConfirmed(PostQuit(SaveHighScore(w)))
         ELSE w

\* a _update_menu in which cancelling the difficulty selection goes back to Easy
UpdateMenuCancelResets(w, gesture) ==
    LET g == w.ge
        confirmed == w.fb.gesture_confirmed
        cooled == g.last_menu_change_time_ago > MENU_COOLDOWN
    IN
    IF g.is_selecting_difficulty
    THEN IF gesture = "Open Palm" /\ confirmed
         THEN IF cooled
              THEN ClearConfirmed(
                     [ w EXCEPT !.ge.difficulty =
                                   IF g.difficulty = DIFF_EASY THEN DIFF_HARD ELSE DIFF_EASY,
                                !.ge.last_menu_change_time_ago = 0 ])
              ELSE w
         ELSE IF gesture = "Thumbs Up" /\ confirmed
         THEN ClearConfirmed([ w EXCEPT !.ge.is_selecting_difficulty = FALSE ])
         ELSE IF gesture = "Peace Sign" /\ confirmed
         THEN ClearConfirmed([ w EXCEPT !.ge.is_selecting_difficulty = FALSE,
                                        !.ge.difficulty = DIFF_EASY ])
         ELSE w
    ELSE IF gesture = "Open Palm" /\ confirmed
         THEN IF cooled
              THEN ClearConfirmed(
                     [ w EXCEPT !.ge.selected_option = (@ + 1) % Len(MenuOptions),
                                !.ge.last_menu_change_time_ago = 0 ])
              ELSE w
         ELSE IF gesture = "Thumbs Up" /\ confirmed
         THEN LET selected_action == MenuOptions[g.selected_option + 1]
              IN  ClearConfirmed(
                    IF selected_action = "Play Game"
                    THEN [ w EXCEPT !.ge = StartTransition(g, STATE_PLAYING) ]
                    ELSE IF selected_action = "Difficulty"
                    THEN [ w EXCEPT !.ge.is_selecting_difficulty = TRUE,
                                    !.ge.last_menu_change_time_ago = 0 ]
                    ELSE PostQuit(SaveHighScore(w)))
         ELSE IF gesture = "Peace Sign" /\ confirmed
         THEN ClearConfirmed(PostQuit(SaveHighScore(w)))
         ELSE w

\* a _update_menu whose sub-mode starts the game on Thumbs Up
UpdateMenuSubStarts(w, gesture) ==
    LET g == w.ge
        confirmed == w.fb.gesture_confirmed
        cooled == g.last_menu_change_time_ago > MENU_COOLDOWN
    IN
    IF g.is_selecting_difficulty
    THEN IF gesture = "Open Palm" /\ confirmed
         THEN IF cooled
              THEN ClearConfirmed(
                     [ w EXCEPT !.ge.difficulty =
                                   IF g.difficulty = DIFF_EASY THEN DIFF_HARD ELSE DIFF_EASY,
                                !.ge.last_menu_change_time_ago = 0 ])
              ELSE w
         ELSE IF gesture = "Thumbs Up" /\ confirmed
         THEN ClearConfirmed([ w EXCEPT !.ge = StartTransition(g, STATE_PLAYING) ])
         ELSE IF gesture = "Peace Sign" /\ confirmed
         THEN ClearConfirmed([ w EXCEPT !.ge.is_selecting_difficulty = FALSE ])
         ELSE w
    ELSE IF gesture = "Open Palm" /\ confirmed
         THEN IF cooled
              THEN ClearConfirmed(
                     [ w EXCEPT !.ge.selected_option = (@ + 1) % Len(MenuOptions),
                                !.ge.last_menu_change_time_ago = 0 ])
              ELSE w
         ELSE IF gesture = "Thumbs Up" /\ confirmed
         THEN LET selected_action == MenuOptions[g.selected_option + 1]
              IN  ClearConfirmed(
                    IF selected_action = "Play Game"
                    THEN [ w EXCEPT !.ge = StartTransition(g, STATE_PLAYING) ]
                    ELSE IF selected_action = "Difficulty"
                    THEN [ w EXCEPT !.ge.is_selecting_difficulty = TRUE,
                                    !.ge.last_menu_change_time_ago = 0 ]
                    ELSE PostQuit(SaveHighScore(w)))
         ELSE IF gesture = "Peace Sign" /\ confirmed
         THEN ClearConfirmed(PostQuit(SaveHighScore(w)))
         ELSE w

\* GameEngine._update_menu
UpdateMenu(w, gesture) ==
    LET g == w.ge
        confirmed == w.fb.gesture_confirmed
        cooled == g.last_menu_change_time_ago > MENU_COOLDOWN
    IN
    IF g.is_selecting_difficulty
    THEN IF gesture = "Open Palm" /\ confirmed
         THEN IF cooled
              THEN ClearConfirmed(
                     [ w EXCEPT !.ge.difficulty =
                                   IF g.difficulty = DIFF_EASY THEN DIFF_HARD ELSE DIFF_EASY,
                                !.ge.last_menu_change_time_ago = 0 ])
              ELSE w
         ELSE IF gesture = "Thumbs Up" /\ confirmed
         THEN ClearConfirmed([ w EXCEPT !.ge.is_selecting_difficulty = FALSE ])
         ELSE IF gesture = "Peace Sign" /\ confirmed
         THEN ClearConfirmed([ w EXCEPT !.ge.is_selecting_difficulty = FALSE ])
         ELSE w
    ELSE IF gesture = "Open Palm" /\ confirmed
         THEN IF cooled
              THEN ClearConfirmed(
                     [ w EXCEPT !.ge.selected_option = (@ + 1) % Len(MenuOptions),
                                !.ge.last_menu_change_time_ago = 0 ])
              ELSE w
         ELSE IF gesture = "Thumbs Up" /\ confirmed
         THEN LET selected_action == MenuOptions[g.selected_option + 1]
              IN  ClearConfirmed(
                    IF selected_action = "Play Game"
                    THEN [ w EXCEPT !.ge = StartTransition(g, STATE_PLAYING) ]
                    ELSE IF selected_action = "Difficulty"
                    THEN [ w EXCEPT !.ge.is_selecting_difficulty = TRUE,
                                    !.ge.last_menu_change_time_ago = 0 ]
                    ELSE PostQuit(SaveHighScore(w)))
         ELSE IF gesture = "Peace Sign" /\ confirmed
         THEN ClearConfirmed(PostQuit(SaveHighScore(w)))
         ELSE w

\* self.player_choice_history.append: a deque(maxlen=PLAYER_HISTORY_SIZE)
PushChoice(h, c) ==
    LET h1 == Append(h, c)
    IN  IF Len(h1) > PLAYER_HISTORY_SIZE THEN Tail(h1) ELSE h1

\* GameEngine._get_computer_choice: the values it can return (random.random(),
\* random.choice) for the engine g
ComputerChoices(g) ==
    IF g.difficulty = DIFF_HARD /\ Len(g.player_choice_history) > 2
    THEN LET h == g.player_choice_history
             modes == {c \in Choices : \A d \in Choices : Count(d, h) <= Count(c, h)}
         IN  {WinCounters[c] : c \in modes} \cup Choices
    ELSE Choices

\* the most frequent choices of the history h: max(set(h), key=h.count) returns
\* the first of them in the iteration order of the set, which for strings
\* changes from run to run (hash randomisation)
Modes(h) == {c \in Choices : Count(c, h) > 0 /\ \A d \in Choices : Count(d, h) <= Count(c, h)}

\* a _get_computer_choice whose non-random branch plays the predicted move itself
GetComputerChoiceMirror(g, lucky, most_frequent, pick) ==
    IF g.difficulty = DIFF_HARD /\ Len(g.player_choice_history) > 2
    THEN IF lucky THEN most_frequent ELSE pick
    ELSE pick

\* a _get_computer_choice that, without a prediction, counters the last choice
GetComputerChoiceEcho(g, lucky, most_frequent, pick) ==
    IF g.difficulty = DIFF_HARD /\ Len(g.player_choice_history) > 2
    THEN IF lucky THEN WinCounters[most_frequent] ELSE pick
    ELSE IF g.player_choice_history # <<>>
    THEN WinCounters[g.player_choice_history[Len(g.player_choice_history)]]
    ELSE pick

\* GameEngine._get_computer_choice.  Its random draws are inputs: lucky is
\* "random.random() < 0.75", most_frequent the element max() returns, pick the
\* value of random.choice(self.choices).
GetComputerChoice(g, lucky, most_frequent, pick) ==
    IF g.difficulty = DIFF_HARD /\ Len(g.player_choice_history) > 2
    THEN IF lucky THEN WinCounters[most_frequent] ELSE pick
    ELSE pick

\* a round resolution that leaves the high score alone
ResolveRoundKeepsHigh(g) ==
    LET score_multiplier == IF g.difficulty = DIFF_HARD THEN 2 ELSE 1
    IN  IF g.user_choice = g.computer_choice
        THEN [ g EXCEPT !.result = "Draw" ]
        ELSE IF WinCounters[g.computer_choice] = g.user_choice
        THEN [ g EXCEPT !.result = "You Win!",
                        !.user_score = @ + score_multiplier ]
        ELSE [ g EXCEPT !.result = "Computer Wins!",
                        !.computer_score = @ + 1 ]

\* a round resolution with the win test the wrong way round
ResolveRoundSwapped(g) ==
    LET score_multiplier == IF g.difficulty = DIFF_HARD THEN 2 ELSE 1
    IN  IF g.user_choice = g.computer_choice
        THEN [ g EXCEPT !.result = "Draw" ]
        ELSE IF WinCounters[g.user_choice] = g.computer_choice
        THEN LET score == g.user_score + score_multiplier
             IN  [ g EXCEPT !.result = "You Win!",
                            !.user_score = score,
                            !.high_score = IF score > @ THEN score ELSE @,
                            !.new_highscore_achieved =
                                 IF score > g.high_score THEN TRUE ELSE @ ]
        ELSE [ g EXCEPT !.result = "Computer Wins!",
                        !.computer_score = @ + 1 ]

\* a round resolution without the score multiplier
ResolveRoundFlat(g) ==
    IF g.user_choice = g.computer_choice
    THEN [ g EXCEPT !.result = "Draw" ]
    ELSE IF WinCounters[g.computer_choice] = g.user_choice
    THEN LET score == g.user_score + 1
         IN  [ g EXCEPT !.result = "You Win!",
                        !.user_score = score,
                        !.high_score = IF score > @ THEN score ELSE @,
                        !.new_highscore_achieved =
                             IF score > g.high_score THEN TRUE ELSE @ ]
    ELSE [ g EXCEPT !.result = "Computer Wins!",
                    !.computer_score = @ + 1 ]

\* the result and score part of _update_game, user_choice and computer_choice set
ResolveRound(g) ==
    LET score_multiplier == IF g.difficulty = DIFF_HARD THEN 2 ELSE 1
    IN  IF g.user_choice = g.computer_choice
        THEN [ g EXCEPT !.result = "Draw" ]
        ELSE IF WinCounters[g.computer_choice] = g.user_choice
        THEN LET score == g.user_score + score_multiplier
             IN  [ g EXCEPT !.result = "You Win!",
                            !.user_score = score,
                            !.high_score = IF score > @ THEN score ELSE @,
                            !.new_highscore_achieved =
                                 IF score > g.high_score THEN TRUE ELSE @ ]
        ELSE [ g EXCEPT !.result = "Computer Wins!",
                        !.computer_score = @ + 1 ]

\* a recording of the player's choice that leaves the history for later
RecordChoiceNoHistory(g, gesture) ==
    [ g EXCEPT !.user_choice = GestureMap[gesture] ]

\* the player's part of _update_game: user_choice set and recorded
RecordChoice(g, gesture) ==
    [ g EXCEPT !.user_choice = GestureMap[gesture],
               !.player_choice_history = PushChoice(@, GestureMap[gesture]) ]

\* a _update_game that stays in Playing after resolving a round
UpdateGameStays(w, gesture, cc) ==
    LET g == w.ge
        confirmed == w.fb.gesture_confirmed
    IN  IF confirmed /\ gesture \in DOMAIN GestureMap
        THEN LET g1 == [ RecordChoice(g, gesture) EXCEPT !.computer_choice = cc ]
             IN  ClearConfirmed([ w EXCEPT !.ge = ResolveRound(g1) ])
        ELSE IF gesture = "Peace Sign" /\ confirmed
        THEN ClearConfirmed([ w EXCEPT !.ge = StartTransition(g, STATE_MENU) ])
        ELSE w

\* GameEngine._update_game; cc is the value _get_computer_choice returns
UpdateGame(w, gesture, cc) ==
    LET g == w.ge
        confirmed == w.fb.gesture_confirmed
    IN  IF confirmed /\ gesture \in DOMAIN GestureMap
        THEN LET g1 == [ RecordChoice(g, gesture) EXCEPT !.computer_choice = cc ]
             IN  ClearConfirmed(
                   [ w EXCEPT !.ge = StartTransition(ResolveRound(g1), STATE_RESULT) ])
        ELSE IF gesture = "Peace Sign" /\ confirmed
        THEN ClearConfirmed([ w EXCEPT !.ge = StartTransition(g, STATE_MENU) ])
        ELSE w

\* a _update_result that never leaves the result screen by itself
UpdateResultNoTimer(w, gesture) ==
    LET g == w.ge
        confirmed == w.fb.gesture_confirmed
    IN  IF FALSE
        THEN [ w EXCEPT !.ge = [ StartTransition(g, STATE_PLAYING)
                                   EXCEPT !.timer_set = FALSE,
                                          !.timer_ago = RESULT_DELAY ] ]
        ELSE IF gesture = "Peace Sign" /\ confirmed
        THEN ClearConfirmed([ w EXCEPT !.ge = StartTransition(g, STATE_MENU) ])
        ELSE IF gesture = "Thumbs Up" /\ confirmed
        THEN ClearConfirmed([ w EXCEPT !.ge = StartTransition(g, STATE_PLAYING) ])
        ELSE w

\* GameEngine._update_result
UpdateResult(w, gesture) ==
    LET g == w.ge
        confirmed == w.fb.gesture_confirmed
    IN  IF g.timer_set /\ g.timer_ago >= RESULT_DELAY
        THEN [ w EXCEPT !.ge = [ StartTransition(g, STATE_PLAYING)
                                   EXCEPT !.timer_set = FALSE,
                                          !.timer_ago = RESULT_DELAY ] ]
        ELSE IF gesture = "Peace Sign" /\ confirmed
        THEN ClearConfirmed([ w EXCEPT !.ge = StartTransition(g, STATE_MENU) ])
        ELSE IF gesture = "Thumbs Up" /\ confirmed
        THEN ClearConfirmed([ w EXCEPT !.ge = StartTransition(g, STATE_PLAYING) ])
        ELSE w

\* GameEngine.update(gesture)
Update(w, gesture, cc) ==
    IF w.ge.current_state = STATE_TRANSITION
    THEN [ w EXCEPT !.ge = UpdateTransition(w.ge) ]
    ELSE IF w.ge.current_state = STATE_MENU
    THEN UpdateMenu(w, gesture)
    ELSE IF w.ge.current_state = STATE_PLAYING
    THEN UpdateGame(w, gesture, cc)
    ELSE IF w.ge.current_state = STATE_RESULT
    THEN UpdateResult(w, gesture)
    ELSE w

\* time.time() has advanced by dt.  self.timer is read in _update_result only and
\* set on entering RESULT: outside RESULT the time since it is not tracked.
GeElapse(g, dt) ==
    [ g EXCEPT !.last_menu_change_time_ago = Min(@ + dt, MENU_COOLDOWN + 1),
               !.timer_ago = IF g.current_state = STATE_RESULT
                             THEN Min(@ + dt, RESULT_DELAY) ELSE RESULT_DELAY ]

----------------------------------------------------------------------------
(* The programs checked *)

Inc2(n) == Min(n + 1, 2)

ObsInit ==
    [ stable_for |-> 0, held_gesture |-> PyNone, held_for |-> 0, fired |-> 0, acts |-> 0,
      transitions |-> 0, hand |-> NoHand ]

\* time passes for the observer of the stabilizer
ObsStableElapse(o, dt) ==
    [ o EXCEPT !.stable_for = Min(@ + dt, MinGestureDuration) ]

\* time passes for the observer of the hold detector
ObsHeldElapse(o, dt) ==
    [ o EXCEPT !.held_for = Min(@ + dt, HoldThreshold) ]

\* the observer of a call provide_visual_feedback(gesture) that takes f0 to f1,
\* followed by an update that leaves the feedback module as f2
ObsFrame(o, gesture, f0, f1, f2) ==
    LET new == gesture # o.held_gesture
        sets == f1.gesture_confirmed /\ ~ f0.gesture_confirmed
        consumes == f1.gesture_confirmed /\ ~ f2.gesture_confirmed
    IN  [ o EXCEPT !.held_gesture = gesture,
                   !.held_for = IF new THEN 0 ELSE @,
                   !.fired = LET n == IF new THEN 0 ELSE @
                             IN  IF sets THEN Inc2(n) ELSE n,
                   !.acts = LET n == IF new THEN 0 ELSE @
                            IN  IF consumes THEN Inc2(n) ELSE n ]

\* main(), lines 20-22: the three objects as constructed
InitWith(files) ==
    /\ highscore_file \in files
    /\ rec = RecInit
    /\ fb = FbInit
    /\ ge = GeInit(highscore_file)
    /\ events = FALSE
    /\ pc = "loop"
    /\ op = "init"
    /\ obs = ObsInit

\* the contents of HIGHSCORE_FILE the program is started with
StoredFiles == {NoFile} \cup {FileOf(Str(n)) : n \in 1..MaxStored}

Init == InitWith(StoredFiles)

InitNoFile == InitWith({NoFile})

(* -- the stabilizer alone: _stabilize_gesture called at any times -- *)

StabilizeCall(raw) ==
    /\ rec' = Stabilize(rec, raw)
    /\ obs' = [obs EXCEPT !.stable_for =
                   IF rec'.current_gesture # rec.current_gesture THEN 0 ELSE @]
    /\ op' = "stabilize"
    /\ UNCHANGED <<fb, ge, highscore_file, events, pc>>

StabElapse ==
    /\ rec' = RecElapse(rec, 1)
    /\ obs' = ObsStableElapse(obs, 1)
    /\ op' = "elapse"
    /\ UNCHANGED <<fb, ge, highscore_file, events, pc>>

NextStab ==
    \/ \E raw \in RawLabels : StabilizeCall(raw)
    \/ StabElapse

SpecStab == InitNoFile /\ [][NextStab]_vars

\* frames keep coming and time advances
FairSpecStab ==
    /\ SpecStab
    /\ WF_vars(\E raw \in RawLabels : StabilizeCall(raw))
    /\ WF_vars(StabElapse)

(* -- process_frame: the hand of each frame classified and stabilized -- *)

ProcessFrame(hand) ==
    /\ Len(rec.gesture_history) < MaxFrames
    /\ rec' = Stabilize(rec, DetectedGesture(hand))
    /\ obs' = [obs EXCEPT !.hand = hand,
                          !.stable_for =
                              IF rec'.current_gesture # rec.current_gesture THEN 0 ELSE @]
    /\ op' = "process"
    /\ UNCHANGED <<fb, ge, highscore_file, events, pc>>

NextFrame ==
    \/ \E hand \in Hands : ProcessFrame(hand)
    \/ StabElapse

SpecFrame == InitNoFile /\ [][NextFrame]_vars

(* -- the hold detector alone: provide_visual_feedback called at any times   *)
(*    with any label, and a consumer that clears the confirmed flag       -- *)

FeedbackCall(gesture) ==
    LET f == ProvideVisualFeedback(fb, gesture)
    IN  /\ fb' = f
        /\ obs' = ObsFrame(obs, gesture, fb, f, f)
        /\ op' = "feedback"
        /\ UNCHANGED <<rec, ge, highscore_file, events, pc>>

\* self.feedback.gesture_confirmed = False, as the engine does after acting
Consume ==
    /\ fb.gesture_confirmed
    /\ fb' = [fb EXCEPT !.gesture_confirmed = FALSE]
    /\ op' = "consume"
    /\ UNCHANGED <<rec, ge, highscore_file, events, pc, obs>>

HoldElapse ==
    /\ fb' = FbElapse(fb, 1)
    /\ obs' = ObsHeldElapse(obs, 1)
    /\ op' = "elapse"
    /\ UNCHANGED <<rec, ge, highscore_file, events, pc>>

NextHold ==
    \/ \E gesture \in Labels : FeedbackCall(gesture)
    \/ Consume
    \/ HoldElapse

SpecHold == InitNoFile /\ [][NextHold]_vars

(* -- the engine alone: update called, once per frame, with any gesture and   *)
(*    any value of the confirmed flag of the feedback module              -- *)

\* the feedback module as update finds it: gesture seen, flag as given
Seen(f, gesture, confirmed) ==
    [f EXCEPT !.last_gesture = gesture, !.gesture_confirmed = confirmed]

\* update acts on this input in this state by resolving a round
ResolvesRound(g, gesture, confirmed) ==
    g.current_state = STATE_PLAYING /\ confirmed /\ gesture \in DOMAIN GestureMap

\* One iteration of the loop of main() with the feedback module replaced by
\* the given flag: the events are read (a QUIT ends the loop after this
\* iteration), update(gesture) is called, clock.tick lets FrameTime pass.  Of the
\* feedback module only the flag is kept.
GameFrame(gesture, confirmed, cc) ==
    LET w == Update(World(ge, Seen(fb, gesture, confirmed), highscore_file, FALSE),
                    gesture, cc)
    IN  /\ pc = "loop"
        /\ IF ResolvesRound(ge, gesture, confirmed)
           THEN /\ cc \in ComputerChoices(RecordChoice(ge, gesture))
                /\ Len(ge.player_choice_history) < MaxRounds
           ELSE cc = "Rock"
        /\ ge' = GeElapse(w.ge, FrameTime)
        /\ fb' = [fb EXCEPT !.gesture_confirmed = w.fb.gesture_confirmed]
        /\ highscore_file' = w.file
        /\ events' = w.events
        /\ pc' = IF events THEN "cleanup" ELSE "loop"
        /\ op' = "update"
        /\ UNCHANGED <<rec, obs>>

\* main(), after the loop: game_engine.save_high_score(), sys.exit()
Cleanup ==
    /\ pc = "cleanup"
    /\ highscore_file' = SaveHighScore(World(ge, fb, highscore_file, events)).file
    /\ pc' = "exited"
    /\ op' = "cleanup"
    /\ UNCHANGED <<rec, fb, ge, events, obs>>

NextGame ==
    \/ \E gesture \in Labels, confirmed \in BOOLEAN, cc \in Choices :
          GameFrame(gesture, confirmed, cc)
    \/ Cleanup

SpecGame == Init /\ [][NextGame]_vars

(* -- the opponent: one round played on any history a game can have -- *)

\* the contents player_choice_history can have
Histories == UNION {[1..n -> Choices] : n \in 0..PLAYER_HISTORY_SIZE}

\* the engine in Playing, at difficulty d, after the rounds of h that were all
\* draws: entered from the menu before the first round, from the result screen
\* after the others
PlayingWith(d, h) ==
    [ GeInit(NoFile) EXCEPT !.current_state = STATE_PLAYING,
                            !.previous_state = IF h = <<>> THEN STATE_MENU ELSE STATE_RESULT,
                            !.transition_alpha = AlphaMax,
                            !.difficulty = d,
                            !.player_choice_history = h,
                            !.timer_set = (h # <<>>) ]

InitPredict ==
    /\ highscore_file = NoFile
    /\ rec = RecInit
    /\ fb = FbInit
    /\ ge \in {PlayingWith(d, h) : d \in {DIFF_EASY, DIFF_HARD}, h \in Histories}
    /\ events = FALSE
    /\ pc = "loop"
    /\ op = "playing"
    /\ obs = ObsInit

\* one iteration of the loop in Playing with a confirmed gesture of the game:
\* update(gesture) resolves a round against the value _get_computer_choice
\* returns on the history already holding the player's choice
PredictRound(gesture, lucky, most_frequent, pick) ==
    LET g1 == RecordChoice(ge, gesture)
        cc == GetComputerChoice(g1, lucky, most_frequent, pick)
        w  == Update(World(ge, Seen(fb, gesture, TRUE), highscore_file, FALSE), gesture, cc)
    IN  /\ pc = "loop"
        /\ ge.current_state = STATE_PLAYING
        /\ most_frequent \in Modes(g1.player_choice_history)
        /\ ge' = GeElapse(w.ge, FrameTime)
        /\ fb' = [fb EXCEPT !.gesture_confirmed = w.fb.gesture_confirmed]
        /\ highscore_file' = w.file
        /\ events' = w.events
        /\ op' = IF /\ g1.difficulty = DIFF_HARD
                    /\ Len(g1.player_choice_history) > 2
                    /\ lucky
                 THEN "counter" ELSE "random"
        /\ UNCHANGED <<rec, obs, pc>>

NextPredict ==
    \E gesture \in DOMAIN GestureMap, lucky \in BOOLEAN,
       most_frequent \in Choices, pick \in Choices :
          PredictRound(gesture, lucky, most_frequent, pick)

SpecPredict == InitPredict /\ [][NextPredict]_vars

(* -- the program: the loop of main(), the value process_frame returns      *)
(*    being any label (the stabilizer is checked on its own above)       -- *)

\* one iteration of the loop of main(), lines 36-64
MainLoop(gesture, cc) ==
    LET f == ProvideVisualFeedback(fb, gesture)
        w == Update(World(ge, f, highscore_file, FALSE), gesture, cc)
        starts == /\ ge.current_state # STATE_TRANSITION
                  /\ w.ge.current_state = STATE_TRANSITION
    IN  /\ pc = "loop"
        /\ IF ResolvesRound(ge, gesture, f.gesture_confirmed)
           THEN /\ cc \in ComputerChoices(RecordChoice(ge, gesture))
                /\ Len(ge.player_choice_history) < MaxRounds
           ELSE cc = "Rock"
        /\ ge' = GeElapse(w.ge, LoopTime)
        /\ fb' = FbElapse(w.fb, LoopTime)
        /\ highscore_file' = w.file
        /\ events' = w.events
        /\ pc' = IF events THEN "cleanup" ELSE "loop"
        /\ op' = "frame"
        /\ starts => obs.transitions < MaxTransitions
        /\ obs' = [ ObsHeldElapse(ObsFrame(obs, gesture, fb, f, w.fb), LoopTime)
                       EXCEPT !.transitions = IF starts THEN @ + 1 ELSE @ ]
        /\ UNCHANGED rec

\* the window is closed or Escape is pressed: a QUIT / KEYDOWN event is queued
UserQuit ==
    /\ pc = "loop"
    /\ ~ events
    /\ events' = TRUE
    /\ op' = "quit"
    /\ UNCHANGED <<rec, fb, ge, highscore_file, pc, obs>>

\* cap.read() fails: break
FrameFails ==
    /\ pc = "loop"
    /\ pc' = "cleanup"
    /\ op' = "noframe"
    /\ UNCHANGED <<rec, fb, ge, highscore_file, events, obs>>

Next ==
    \/ \E gesture \in Labels, cc \in Choices : MainLoop(gesture, cc)
    \/ UserQuit
    \/ FrameFails
    \/ Cleanup

Spec == InitNoFile /\ [][Next]_vars

(* -- the life of HIGHSCORE_FILE: the program is started on any content of  *)
(*    the file, ends, and is started again on what it has written        -- *)

\* the characters the texts of HIGHSCORE_FILE are made of
StoreChars == {"4", "2", "0", "-", " ", "\n", "x"}

Texts(n) == UNION {[1..k -> StoreChars] : k \in 0..n}

AnyFiles == {NoFile} \cup {FileOf(t) : t \in Texts(MaxLen)}

InitStore == InitWith(AnyFiles)

\* main() is run again after it has ended: lines 20-22 on the file as it is now
Restart ==
    /\ pc = "exited"
    /\ rec' = RecInit
    /\ fb' = FbInit
    /\ ge' = GeInit(highscore_file)
    /\ events' = FALSE
    /\ pc' = "loop"
    /\ op' = "restart"
    /\ obs' = ObsInit
    /\ UNCHANGED highscore_file

NextStore ==
    \/ FrameFails
    \/ Cleanup
    \/ Restart

SpecStore == InitStore /\ [][NextStore]_vars

----------------------------------------------------------------------------
(* Properties of the hold detector (SpecHold) *)

\* C2: gesture_confirmed is a one-shot latch: once provide_visual_feedback has
\* set it during a hold episode and a consumer has cleared it, the calls of
\* provide_visual_feedback do not set it again before the gesture changes, so
\* it is set at most once for as long as the same gesture is passed in.
C2_OneShotLatch == obs.fired <= 1

\* C3: after every call of provide_visual_feedback, if the gesture differs
\* from the one of the call before, gesture_confirmed is false and the hold
\* starts now; and gesture_confirmed is true only if the same gesture has
\* been passed in for at least hold_threshold.
C3_HoldConfirms ==
    /\ (op = "feedback" /\ obs.held_for = 0) =>
          /\ ~ fb.gesture_confirmed
          /\ fb.last_gesture_time_ago = 0
          /\ fb.gesture_hold_time = 0
    /\ fb.gesture_confirmed =>
          /\ obs.held_for >= HoldThreshold
          /\ fb.last_gesture = obs.held_gesture

\* a gesture held for hold_threshold has just been confirmed
C3_Witness ==
    /\ op = "feedback"
    /\ fb.gesture_confirmed
    /\ fb.gesture_hold_time = HoldThreshold
    /\ obs.fired = 1

----------------------------------------------------------------------------
(* Properties of the stabilizer (SpecStab, FairSpecStab) *)

\* the label l has a confidence of at least 0.6 in the window h
Confident(l, h) == 10 * Count(l, h) >= 6 * Len(h)

\* the labels no other label occurs more often than in the window h
MostFrequent(h) ==
    {l \in Labels : Count(l, h) > 0 /\ \A m \in Labels : Count(m, h) <= Count(l, h)}

\* C4: any two changes of current_gesture are at least min_gesture_duration
\* apart, and the first one is at least that long after construction,
\* whatever the raw labels are.
C4_ChangesApart ==
    [][rec'.current_gesture # rec.current_gesture =>
          obs.stable_for >= MinGestureDuration]_vars

\* the stable label has just changed for the second time
C4_Witness ==
    /\ op = "stabilize"
    /\ obs.stable_for = 0
    /\ rec.prev_gesture # "None"
    /\ rec.current_gesture # rec.prev_gesture

\* C5: on each call of _stabilize_gesture, with the raw label appended to the
\* window, current_gesture becomes the most frequent label of the window if
\* and only if that label's confidence is at least 0.6, it differs from
\* current_gesture and last_gesture_time is at least 0.3 s ago; in every other
\* case current_gesture, prev_gesture and last_gesture_time are unchanged.
C5_SwitchIff ==
    [][op' = "stabilize" =>
          LET h == rec'.gesture_history
              to == {l \in MostFrequent(h) :
                        /\ Confident(l, h)
                        /\ l # rec.current_gesture
                        /\ rec.last_gesture_time_ago >= MinGestureDuration}
          IN  IF to # {}
              THEN /\ rec'.current_gesture \in to
                   /\ rec'.prev_gesture = rec.current_gesture
                   /\ rec'.last_gesture_time_ago = 0
              ELSE /\ rec'.current_gesture = rec.current_gesture
                   /\ rec'.prev_gesture = rec.prev_gesture
                   /\ rec'.last_gesture_time_ago = rec.last_gesture_time_ago]_vars

\* the stable label has just been switched at a confidence of exactly 0.6
C5_Witness ==
    /\ op = "stabilize"
    /\ rec.last_gesture_time_ago = 0
    /\ rec.current_gesture = "Open Palm"
    /\ rec.prev_gesture = "Fist"
    /\ Len(rec.gesture_history) = HistorySize
    /\ Count("Open Palm", rec.gesture_history) = 3

\* C6: a raw label seen in only one frame never becomes the stable label, from
\* the first frame on: whenever current_gesture changes, the label it changes
\* to is held by at least two frames of the window.
C6_NoSingleFrame ==
    [][rec'.current_gesture # rec.current_gesture =>
          Count(rec'.current_gesture, rec'.gesture_history) >= 2]_vars

\* the raw label of the last frame
LastRaw == IF rec.gesture_history = <<>>
           THEN PyNone
           ELSE rec.gesture_history[Len(rec.gesture_history)]

\* C7: if from some time on every frame has the raw label L, frames keep
\* coming and time advances, then current_gesture eventually is L for good;
\* and it is L after the first call at which L has a confidence of at least
\* 0.6 in the window and the last change is at least 0.3 s ago.
C7_Converges ==
    /\ \A L \in RawLabels :
          <>[](LastRaw = L) => <>[](rec.current_gesture = L)
    /\ [][op' = "stabilize" =>
             \A L \in RawLabels :
                (/\ Confident(L, rec'.gesture_history)
                 /\ obs.stable_for >= MinGestureDuration)
                => rec'.current_gesture = L]_vars

\* the window holds one label only, which has become the stable label
C7_Witness ==
    /\ Len(rec.gesture_history) = HistorySize
    /\ \A i \in 1..HistorySize : rec.gesture_history[i] = "Fist"
    /\ rec.current_gesture = "Fist"
    /\ rec.prev_gesture = "Open Palm"

----------------------------------------------------------------------------
(* Properties of the game engine (SpecGame) *)

\* the engine after update(gesture) is called in the current state, the
\* feedback module holding the given confirmed flag and _get_computer_choice
\* returning cc
After(gesture, confirmed, cc) ==
    Update(World(ge, Seen(fb, gesture, confirmed), highscore_file, FALSE),
           gesture, cc).ge

\* C8: in Playing, Peace Sign + confirmed begins a transition to Menu and
\* discards the round: nothing is appended to the player choice history, no
\* opponent choice is drawn and user_score, computer_score and high_score are
\* unchanged.
C8_PeaceSignAborts ==
    ge.current_state = STATE_PLAYING =>
        \A cc \in Choices :
            LET g == After("Peace Sign", TRUE, cc)
            IN  /\ g.current_state = STATE_TRANSITION
                /\ g.next_state = STATE_MENU
                /\ g.player_choice_history = ge.player_choice_history
                /\ g.computer_choice = ge.computer_choice
                /\ g.user_score = ge.user_score
                /\ g.computer_score = ge.computer_score
                /\ g.high_score = ge.high_score

\* rock-paper-scissors: a beats b
Beats(a, b) ==
    <<a, b>> \in {<<"Paper", "Rock">>, <<"Scissors", "Paper">>, <<"Rock", "Scissors">>}

Outcome(player, opponent) ==
    IF player = opponent THEN "Draw"
    ELSE IF Beats(player, opponent) THEN "You Win!"
    ELSE "Computer Wins!"

ChoiceOf(gesture) ==
    CASE gesture = "Fist" -> "Rock"
      [] gesture = "Open Palm" -> "Paper"
      [] gesture = "Peace Sign" -> "Scissors"

\* C9: in Playing, a confirmed Fist, Open Palm or Peace Sign resolves a round
\* of Rock, Paper or Scissors whose result is the rock-paper-scissors outcome
\* for each of the 9 pairs of choices, and the engine starts the transition
\* to Result in the same tick.
C9_RoundOutcome ==
    ge.current_state = STATE_PLAYING =>
        \A gesture \in {"Fist", "Open Palm", "Peace Sign"}, cc \in Choices :
            LET g == After(gesture, TRUE, cc)
            IN  /\ g.user_choice = ChoiceOf(gesture)
                /\ g.computer_choice = cc
                /\ g.result = Outcome(ChoiceOf(gesture), cc)
                /\ g.current_state = STATE_TRANSITION
                /\ g.next_state = STATE_RESULT

\* Rock against Scissors has been resolved as a win of the player
C9_Witness ==
    /\ ge.current_state = STATE_TRANSITION
    /\ ge.next_state = STATE_RESULT
    /\ ge.user_choice = "Rock"
    /\ ge.computer_choice = "Scissors"
    /\ ge.result = "You Win!"

\* C10: a resolved round changes the scores by exactly: player win ->
\* user_score + 1 in Easy and + 2 in Hard, computer_score unchanged; opponent
\* win -> computer_score + 1, user_score unchanged; draw -> both unchanged.
\* No update lowers a score, except the one that enters Playing from Menu,
\* which sets both to 0.
C10_Scores ==
    \A gesture \in Labels, confirmed \in BOOLEAN, cc \in Choices :
        LET g == After(gesture, confirmed, cc)
            resolved == /\ ge.current_state = STATE_PLAYING
                        /\ g.current_state = STATE_TRANSITION
                        /\ g.next_state = STATE_RESULT
            du == g.user_score - ge.user_score
            dc == g.computer_score - ge.computer_score
        IN  /\ resolved =>
                CASE g.result = "You Win!" ->
                        du = (IF ge.difficulty = DIFF_HARD THEN 2 ELSE 1) /\ dc = 0
                  [] g.result = "Computer Wins!" -> du = 0 /\ dc = 1
                  [] g.result = "Draw" -> du = 0 /\ dc = 0
                  [] OTHER -> FALSE
            /\ \/ du >= 0 /\ dc >= 0
               \/ /\ ge.current_state = STATE_TRANSITION
                  /\ ge.previous_state = STATE_MENU
                  /\ g.current_state = STATE_PLAYING
                  /\ g.user_score = 0
                  /\ g.computer_score = 0

\* a round won in Hard has been resolved: two points
C10_Witness ==
    /\ ge.current_state = STATE_TRANSITION
    /\ ge.next_state = STATE_RESULT
    /\ ge.difficulty = DIFF_HARD
    /\ ge.result = "You Win!"
    /\ ge.user_score = 2
    /\ ge.computer_score = 0

----------------------------------------------------------------------------
(* Properties of the program (Spec) *)

\* C1: for as long as the gesture label stays the same (one hold episode),
\* provide_visual_feedback and update being called in every iteration of the
\* loop, the engine performs at most one gesture-triggered action: a
\* confirmation is consumed once per hold episode.
C1_OneActionPerHold == obs.acts <= 1
----------------------------------------------------------------------------
(* Properties of the high score (SpecGame, Spec, SpecStore) *)

\* C11: when a player win makes user_score exceed high_score, high_score is
\* set to user_score and new_highscore_achieved becomes true; no other update
\* changes high_score. So high_score never decreases and, the loaded value
\* being non-negative, high_score >= user_score in every reachable state.
C11_HighScore ==
    /\ ge.high_score >= ge.user_score
    /\ \A gesture \in Labels, confirmed \in BOOLEAN, cc \in Choices :
          LET g == After(gesture, confirmed, cc)
              won == /\ ge.current_state = STATE_PLAYING
                     /\ g.result = "You Win!"
                     /\ g.user_score > ge.user_score
          IN  /\ g.high_score >= ge.high_score
              /\ IF won /\ g.user_score > ge.high_score
                 THEN g.high_score = g.user_score /\ g.new_highscore_achieved
                 ELSE g.high_score = ge.high_score

\* a win in Hard has lifted the high score from the stored 1 to 2
C11_Witness ==
    /\ highscore_file = FileOf(Str(1))
    /\ ge.current_state = STATE_TRANSITION
    /\ ge.next_state = STATE_RESULT
    /\ ge.user_score = 2
    /\ ge.high_score = 2
    /\ ge.new_highscore_achieved
\* C12: the high score is written to HIGHSCORE_FILE whenever it increases: in
\* every tick in which high_score grows, the file holds the new value at the
\* end of that tick.
C12_SavedOnIncrease ==
    [][ge'.high_score > ge.high_score =>
          /\ highscore_file'.exists
          /\ LoadHighScore(highscore_file') = ge'.high_score]_vars
C14_RoundTrip ==
    [][(op' = "restart" /\ ge.high_score >= 0) =>
          ge'.high_score = ge.high_score]_vars

\* the program has been started again on the 42 it wrote
C14_Witness ==
    /\ op = "restart"
    /\ ge.high_score = 42
    /\ highscore_file = FileOf(<<"4", "2">>)

\* C15: the high score read at start-up is a non-negative integer whatever
\* HIGHSCORE_FILE holds: a missing file gives 0 and no content gives a
\* negative high_score.
C15_LoadedNonNegative ==
    op \in {"init", "restart"} =>
        /\ ge.high_score \in Nat
        /\ ~ highscore_file.exists => ge.high_score = 0
----------------------------------------------------------------------------
(* Properties of the menu and of the result screen (SpecGame) *)

\* the engine, the confirmed flag, the file and the event queue after
\* update(gesture) is called in the current state
AfterWorld(gesture, confirmed, cc) ==
    Update(World(ge, Seen(fb, gesture, confirmed), highscore_file, FALSE),
           gesture, cc)

InMainMenu == ge.current_state = STATE_MENU /\ ~ ge.is_selecting_difficulty

InSubMenu == ge.current_state = STATE_MENU /\ ge.is_selecting_difficulty

\* C16: in the main menu, Open Palm + confirmed moves selected_option on by
\* one modulo the 3 options and records the time of the change, unless the
\* last change is less than the 0.5 s cooldown ago, when selected_option stays;
\* so no update changes selected_option less than 0.5 s after the last change.
C16_MenuCycle ==
    /\ InMainMenu =>
          LET g == After("Open Palm", TRUE, "Rock")
          IN  /\ ge.last_menu_change_time_ago > MENU_COOLDOWN =>
                    /\ g.selected_option = (ge.selected_option + 1) % 3
                    /\ g.last_menu_change_time_ago = 0
              /\ ge.last_menu_change_time_ago < MENU_COOLDOWN =>
                    g.selected_option = ge.selected_option
    /\ \A gesture \in Labels, confirmed \in BOOLEAN, cc \in Choices :
          LET g == After(gesture, confirmed, cc)
          IN  g.selected_option # ge.selected_option =>
                 /\ ge.last_menu_change_time_ago >= MENU_COOLDOWN
                 /\ g.last_menu_change_time_ago = 0

\* the menu went from 0 to 1, and a confirmed gesture 0.1 s later left it at 1
C16_Witness ==
    /\ InMainMenu
    /\ ge.selected_option = 1
    /\ ge.last_menu_change_time_ago = 2
    /\ fb.gesture_confirmed

\* C17: in the main menu, Thumbs Up + confirmed acts on the highlighted option
\* only: 'Play Game' starts a transition to Playing, 'Difficulty' sets the
\* sub-mode flag and stays in Menu, 'Exit' writes the high score and requests
\* shutdown; selected_option, difficulty and the scores are unchanged and the
\* confirmed flag is cleared.
C17_Activate ==
    InMainMenu =>
        LET w == AfterWorld("Thumbs Up", TRUE, "Rock")
            g == w.ge
        IN  /\ g.selected_option = ge.selected_option
            /\ g.difficulty = ge.difficulty
            /\ g.user_score = ge.user_score
            /\ g.computer_score = ge.computer_score
            /\ g.high_score = ge.high_score
            /\ ~ w.fb.gesture_confirmed
            /\ CASE ge.selected_option = 0 ->
                       /\ g.current_state = STATE_TRANSITION
                       /\ g.next_state = STATE_PLAYING
                       /\ ~ g.is_selecting_difficulty
                       /\ ~ w.events
                       /\ w.file = highscore_file
                 [] ge.selected_option = 1 ->
                       /\ g.current_state = STATE_MENU
                       /\ g.is_selecting_difficulty
                       /\ ~ w.events
                       /\ w.file = highscore_file
                 [] ge.selected_option = 2 ->
                       /\ g.current_state = STATE_MENU
                       /\ ~ g.is_selecting_difficulty
                       /\ w.events
                       /\ w.file = FileOf(Str(ge.high_score))

\* 'Difficulty' has just been activated
C17_Witness ==
    /\ InSubMenu
    /\ ge.selected_option = 1
    /\ ge.last_menu_change_time_ago = 1
    /\ ~ fb.gesture_confirmed

\* C18: in the difficulty sub-mode, Open Palm + confirmed outside the cooldown
\* toggles difficulty between Easy and Hard; Thumbs Up + confirmed and Peace
\* Sign + confirmed give the same state: the sub-mode flag cleared, difficulty
\* as last toggled, no shutdown requested, current_state still Menu.
C18_SubMenu ==
    InSubMenu =>
        LET wo == AfterWorld("Open Palm", TRUE, "Rock")
            wt == AfterWorld("Thumbs Up", TRUE, "Rock")
            wp == AfterWorld("Peace Sign", TRUE, "Rock")
        IN  /\ ge.last_menu_change_time_ago > MENU_COOLDOWN =>
                  /\ wo.ge.difficulty # ge.difficulty
                  /\ wo.ge.difficulty \in {DIFF_EASY, DIFF_HARD}
                  /\ wo.ge.is_selecting_difficulty
                  /\ wo.ge.current_state = STATE_MENU
            /\ wt.ge = [ge EXCEPT !.is_selecting_difficulty = FALSE]
            /\ wp.ge = wt.ge
            /\ ~ wt.fb.gesture_confirmed /\ ~ wp.fb.gesture_confirmed
            /\ ~ wt.events /\ ~ wp.events
            /\ wt.file = highscore_file /\ wp.file = highscore_file

\* the sub-mode has been left with the difficulty toggled to Hard
C18_Witness ==
    /\ InMainMenu
    /\ ge.selected_option = 1
    /\ ge.difficulty = DIFF_HARD
    /\ ~ fb.gesture_confirmed
    /\ ~ events

\* C19: difficulty changes only by an Open Palm toggle taken in Menu with the
\* sub-mode flag set; every other update in every state leaves it unchanged,
\* so it is constant throughout Playing, Result and the transitions.
C19_DifficultyFrame ==
    \A gesture \in Labels, confirmed \in BOOLEAN, cc \in Choices :
        After(gesture, confirmed, cc).difficulty # ge.difficulty =>
            /\ InSubMenu
            /\ gesture = "Open Palm"
            /\ confirmed

\* the difficulty chosen in the menu is still Hard on the result screen
C19_Witness ==
    /\ ge.current_state = STATE_RESULT
    /\ ge.difficulty = DIFF_HARD
\* C20: in Result, once 2.0 s have passed since Result was entered the next
\* update starts a transition to Playing whatever the gesture; before that,
\* Thumbs Up + confirmed starts a transition to Playing, Peace Sign + confirmed
\* one to Menu, and any other input leaves the engine in Result. So, updates
\* coming, Result is left within 2.0 s plus one tick.
C20_ResultExit ==
    /\ [](ge.current_state = STATE_RESULT =>
            \A gesture \in Labels, confirmed \in BOOLEAN, cc \in Choices :
                LET g == After(gesture, confirmed, cc)
                    to(s) == /\ g.current_state = STATE_TRANSITION
                             /\ g.previous_state = STATE_RESULT
                             /\ g.next_state = s
                IN  IF ge.timer_ago >= RESULT_DELAY THEN to(STATE_PLAYING)
                    ELSE IF gesture = "Thumbs Up" /\ confirmed THEN to(STATE_PLAYING)
                    ELSE IF gesture = "Peace Sign" /\ confirmed THEN to(STATE_MENU)
                    ELSE g.current_state = STATE_RESULT)
    /\ [][(ge.current_state = STATE_RESULT /\ ge.timer_ago >= RESULT_DELAY
             /\ op' = "update") =>
                ge'.current_state = STATE_TRANSITION]_vars

\* the result screen has been left for Playing by the timer
C20_Witness ==
    /\ ge.current_state = STATE_TRANSITION
    /\ ge.previous_state = STATE_RESULT
    /\ ge.next_state = STATE_PLAYING
    /\ ge.transition_alpha = 0
    /\ ~ ge.timer_set
----------------------------------------------------------------------------
(* Properties of the engine's states and transitions (Spec, SpecGame) *)

\* C21: with the label None or Unknown, whatever the confirmed flag, an update
\* in Menu or Playing changes nothing (engine, confirmed flag, file, events),
\* and an update in Result changes nothing but for the transition to Playing
\* the timer starts; update is defined for every label.
C21_InertOnNoGesture ==
    \A gesture \in {"None", "Unknown"}, confirmed \in BOOLEAN, cc \in Choices :
        LET w == AfterWorld(gesture, confirmed, cc)
            same == /\ w.ge = ge
                    /\ w.fb.gesture_confirmed = confirmed
                    /\ w.file = highscore_file
                    /\ ~ w.events
        IN  /\ ge.current_state \in {STATE_MENU, STATE_PLAYING} => same
            /\ ge.current_state = STATE_RESULT =>
                  IF ge.timer_ago >= RESULT_DELAY
                  THEN /\ w.ge.current_state = STATE_TRANSITION
                       /\ w.ge.next_state = STATE_PLAYING
                       /\ w.fb.gesture_confirmed = confirmed
                       /\ w.file = highscore_file
                       /\ ~ w.events
                  ELSE same

\* Unknown has been held to confirmation in Playing and no round was resolved
C21_Witness ==
    /\ ge.current_state = STATE_PLAYING
    /\ op = "frame"
    /\ fb.last_gesture = "Unknown"
    /\ fb.gesture_confirmed
    /\ ge.user_choice = PyNone
    /\ ge.player_choice_history = <<>>
\* C22: the engine starts in Menu and always has a next tick: current_state
\* is one of Menu, Playing, Result, Transition; next_state is set, to Menu,
\* Playing or Result, exactly when current_state is Transition; and update
\* gives such a state again for every gesture label and confirmed value.
C22_ValidStates ==
    LET States == {STATE_MENU, STATE_PLAYING, STATE_RESULT, STATE_TRANSITION}
    IN  /\ op = "init" => ge.current_state = STATE_MENU
        /\ ge.current_state \in States
        /\ ge.next_state \in {PyNone, STATE_MENU, STATE_PLAYING, STATE_RESULT}
        /\ ge.current_state = STATE_TRANSITION <=> ge.next_state # PyNone
        /\ \A gesture \in Labels, confirmed \in BOOLEAN, cc \in Choices :
              LET g == After(gesture, confirmed, cc)
              IN  /\ g.current_state \in States
                  /\ g.current_state = STATE_TRANSITION <=> g.next_state # PyNone

\* a transition from Result to Menu is half way
C22_Witness ==
    /\ ge.current_state = STATE_TRANSITION
    /\ ge.previous_state = STATE_RESULT
    /\ ge.next_state = STATE_MENU
    /\ ge.transition_alpha = 125
----------------------------------------------------------------------------
(* Properties of the classification (SpecFrame) *)

\* the label the five flags stand for, by the set of extended fingers
Expected(e) ==
    LET up == {i \in 1..5 : e[i]}
    IN  CASE up = 1..5 -> "Open Palm"
          [] up = {} -> "Fist"
          [] up = {1} -> "Thumbs Up"
          [] up = {2, 3} -> "Peace Sign"
          [] OTHER -> "Unknown"

\* C23: the raw label is a total function of the five extended flags: all
\* five -> Open Palm; none -> Fist; thumb only -> Thumbs Up; exactly index and
\* middle -> Peace Sign; each of the other 28 combinations -> Unknown; and a
\* frame without a hand gives None.
C23_Classification ==
    /\ op = "process" =>
          LastRaw = IF obs.hand.detected THEN Expected(obs.hand.extended) ELSE "None"
    /\ Cardinality({e \in [1..5 -> BOOLEAN] : Classify(e) = "Unknown"}) = 28

\* a frame with index and middle finger extended has been classified
C23_Witness ==
    /\ op = "process"
    /\ obs.hand.detected
    /\ obs.hand.extended = <<FALSE, TRUE, TRUE, FALSE, FALSE>>
    /\ LastRaw = "Peace Sign"
----------------------------------------------------------------------------
(* Properties of the opponent (SpecPredict) *)

\* the choices that occur most often in h, counted one by one
MostFrequentChoices(h) ==
    {c \in Choices :
        /\ \E i \in 1..Len(h) : h[i] = c
        /\ \A d \in Choices :
              Cardinality({i \in 1..Len(h) : h[i] = d})
                 <= Cardinality({i \in 1..Len(h) : h[i] = c})}

\* the last five elements of s
LastFive(s) == IF Len(s) <= 5 THEN s ELSE SubSeq(s, Len(s) - 4, Len(s))

\* C24: in Hard mode with more than 2 entries in the history, the non-random
\* branch of _get_computer_choice returns the choice that beats a most frequent
\* choice of the history (for [Rock, Rock, Paper]: Paper, the counter of Rock);
\* the history holds at most the last 5 choices, the oldest being dropped.
C24_CounterMove ==
    /\ [](/\ Len(ge.player_choice_history) <= 5
          /\ op = "counter" =>
                /\ ge.difficulty = DIFF_HARD
                /\ Len(ge.player_choice_history) > 2
                /\ \E m \in MostFrequentChoices(ge.player_choice_history) :
                      Beats(ge.computer_choice, m)
                /\ ge.player_choice_history = <<"Rock", "Rock", "Paper">> =>
                      /\ MostFrequentChoices(ge.player_choice_history) = {"Rock"}
                      /\ ge.computer_choice = "Paper")
    /\ [][op' \in {"counter", "random"} =>
             ge'.player_choice_history =
                 LastFive(Append(ge.player_choice_history, ge'.user_choice))]_vars

\* the counter move has been played on the history [Rock, Rock, Paper]
C24_Witness ==
    /\ op = "counter"
    /\ ge.player_choice_history = <<"Rock", "Rock", "Paper">>
    /\ ge.user_choice = "Paper"
    /\ ge.computer_choice = "Paper"

\* the values _get_computer_choice can return for the engine g
PossibleChoices(g) ==
    {GetComputerChoice(g, lucky, most_frequent, pick) :
        lucky \in BOOLEAN, most_frequent \in Modes(g.player_choice_history),
        pick \in Choices}

\* C26: in Easy mode, or with at most 2 entries in the history,
\* _get_computer_choice can return each of Rock, Paper and Scissors and nothing
\* else, and the set of possible results is the same whatever the history holds.
C26_RandomChoice ==
    /\ op = "random" => ge.computer_choice \in Choices
    /\ ge.current_state = STATE_PLAYING =>
          \A gesture \in DOMAIN GestureMap :
              LET g1 == RecordChoice(ge, gesture)
              IN  (g1.difficulty = DIFF_EASY \/ Len(g1.player_choice_history) <= 2) =>
                     /\ PossibleChoices(g1) = {"Rock", "Paper", "Scissors"}
                     /\ \A h2 \in Histories \ {<<>>} :
                           LET g2 == [g1 EXCEPT !.player_choice_history = h2]
                           IN  (g2.difficulty = DIFF_EASY \/ Len(h2) <= 2) =>
                                  PossibleChoices(g2) = PossibleChoices(g1)

\* in Easy mode, on a full history ending in Rock, the opponent has played Scissors
C26_Witness ==
    /\ op = "random"
    /\ ge.difficulty = DIFF_EASY
    /\ Len(ge.player_choice_history) = 5
    /\ ge.user_choice = "Rock"
    /\ ge.computer_choice = "Scissors"
\* the number of calls of update until the engine g has left Transitioning
RECURSIVE TicksToEnd(_)
TicksToEnd(g) ==
    IF g.current_state # STATE_TRANSITION THEN 0
    ELSE 1 + TicksToEnd(Update(World(g, fb, highscore_file, FALSE), "None", "Rock").ge)

\* C27: while Transitioning the gesture and the confirmed flag are ignored and
\* transition_alpha grows by exactly 5 per tick from 0 within 0..255; on
\* reaching 255 the engine adopts next_state and clears it, so every
\* transition completes after exactly 51 ticks.
C27_Transition ==
    /\ ge.transition_alpha \in 0..255
    /\ ge.current_state = STATE_TRANSITION =>
          /\ ge.transition_alpha \in {5 * k : k \in 0..50}
          /\ TicksToEnd(ge) = 51 - (ge.transition_alpha \div 5)
    /\ \A gesture \in Labels, confirmed \in BOOLEAN, cc \in Choices :
          LET w == AfterWorld(gesture, confirmed, cc)
          IN  IF ge.current_state = STATE_TRANSITION
              THEN /\ w.fb.gesture_confirmed = confirmed
                   /\ w.file = highscore_file
                   /\ ~ w.events
                   /\ w.ge = AfterWorld("None", FALSE, "Rock").ge
                   /\ w.ge.transition_alpha = ge.transition_alpha + 5
                   /\ IF w.ge.transition_alpha = 255
                      THEN /\ w.ge.current_state = ge.next_state
                           /\ w.ge.next_state = PyNone
                      ELSE w.ge = [ge EXCEPT !.transition_alpha = @ + 5]
              ELSE w.ge.current_state = STATE_TRANSITION =>
                      /\ w.ge.transition_alpha = 0
                      /\ TicksToEnd(w.ge) = 51

\* fifty ticks of a transition to the result screen have passed
C27_Witness ==
    /\ ge.current_state = STATE_TRANSITION
    /\ ge.next_state = STATE_RESULT
    /\ ge.transition_alpha = 250
    /\ op = "update"

\* C28: on completing a transition, entering Playing from Menu sets both scores
\* to 0, empties the history and clears the new-high-score flag; entering
\* Playing from Result leaves scores and history unchanged; entering Result
\* starts the result timer; entering Menu clears the difficulty sub-mode flag
\* and keeps the scores.  No entry changes high_score, difficulty or
\* selected_option.
C28_StateEntry ==
    (ge.current_state = STATE_TRANSITION /\ ge.transition_alpha = 250) =>
        \A gesture \in Labels, confirmed \in BOOLEAN, cc \in Choices :
            LET g == After(gesture, confirmed, cc)
                kept == /\ g.user_score = ge.user_score
                        /\ g.computer_score = ge.computer_score
                        /\ g.player_choice_history = ge.player_choice_history
            IN  /\ g.current_state = ge.next_state
                /\ g.high_score = ge.high_score
                /\ g.difficulty = ge.difficulty
                /\ g.selected_option = ge.selected_option
                /\ (ge.next_state = STATE_PLAYING /\ ge.previous_state = STATE_MENU) =>
                      /\ g.user_score = 0
                      /\ g.computer_score = 0
                      /\ g.player_choice_history = <<>>
                      /\ ~ g.new_highscore_achieved
                /\ (ge.next_state = STATE_PLAYING /\ ge.previous_state = STATE_RESULT) =>
                      kept
                /\ ge.next_state = STATE_PLAYING => ge.previous_state \in {STATE_MENU, STATE_RESULT}
                /\ ge.next_state = STATE_RESULT =>
                      g.timer_set /\ g.timer_ago = 0 /\ kept
                /\ ge.next_state = STATE_MENU =>
                      ~ g.is_selecting_difficulty /\ kept

\* a second game has been entered from the menu after a game with a win: the
\* scores are back at 0, the high score of the session is kept
C28_Witness ==
    /\ ge.current_state = STATE_PLAYING
    /\ ge.previous_state = STATE_MENU
    /\ ge.user_score = 0
    /\ ge.computer_score = 0
    /\ ge.player_choice_history = <<>>
    /\ highscore_file = NoFile
    /\ ge.high_score >= 1
----------------------------------------------------------------------------
(* Properties of the window and of the hold time (SpecStab, SpecHold) *)

\* the sum of f over the set S
RECURSIVE SumOver(_, _)
SumOver(f, S) ==
    IF S = {} THEN 0
    ELSE LET x == CHOOSE y \in S : TRUE
         IN  f[x] + SumOver(f, S \ {x})

\* the labels in the window h
Present(h) == {h[i] : i \in 1..Len(h)}

\* C29: after every _stabilize_gesture call the window holds at most 5 raw
\* labels, the most recent ones (the oldest is evicted first); each label in
\* the window has confidence = occurrences in the window / window length,
\* within [0,1]; the confidences of the labels in the window sum to 1.
\* (Confidences are in sixtieths: 1 is 60.)
C29_WindowConfidence ==
    /\ Len(rec.gesture_history) <= 5
    /\ op = "stabilize" =>
          LET h == rec.gesture_history
          IN  /\ Len(h) >= 1
              /\ Present(h) \subseteq DOMAIN rec.gesture_confidence
              /\ \A l \in Present(h) :
                    /\ rec.gesture_confidence[l] * Len(h)
                          = 60 * Cardinality({i \in 1..Len(h) : h[i] = l})
                    /\ rec.gesture_confidence[l] \in 0..60
              /\ SumOver(rec.gesture_confidence, Present(h)) = 60
    /\ \A raw \in RawLabels :
          Stabilize(rec, raw).gesture_history = LastFive(Append(rec.gesture_history, raw))

\* a full window with three different labels has been evaluated
C29_Witness ==
    /\ op = "stabilize"
    /\ Len(rec.gesture_history) = 5
    /\ Cardinality(Present(rec.gesture_history)) = 3
    /\ rec.gesture_confidence[rec.gesture_history[5]] = 12

\* the share of hold_threshold shown by the progress bar, in tenths
Progress(f) == Min(f.gesture_hold_time, HoldThreshold)

\* C30: within one hold episode gesture_hold_time, and the progress
\* min(1, hold_time / 1.0) derived from it, does not decrease from tick to tick
\* and progress stays in [0,1]; on the tick where the label changes the hold
\* time is reset to 0.  (Times are in tenths of a second: 1 is 10.)
C30_HoldTimeMonotone ==
    /\ [](Progress(fb) \in 0..10 /\ fb.gesture_hold_time >= 0)
    /\ [][/\ fb'.last_gesture = fb.last_gesture =>
                /\ fb'.gesture_hold_time >= fb.gesture_hold_time
                /\ Progress(fb') >= Progress(fb)
          /\ (op' = "feedback" /\ fb'.last_gesture # fb.last_gesture) =>
                /\ fb'.gesture_hold_time = 0
                /\ Progress(fb') = 0]_vars

\* a gesture is being held and is not confirmed yet: the progress bar is drawn
C30_Witness ==
    /\ op = "feedback"
    /\ fb.gesture_hold_time > 0
    /\ fb.gesture_hold_time < HoldThreshold
    /\ ~ fb.gesture_confirmed
    /\ obs.held_for = fb.gesture_hold_time
----------------------------------------------------------------------------
(* Properties of the whole loop: hold detector and engine together (Spec) *)

\* C31: after Thumbs Up+confirmed on 'Difficulty' has opened the difficulty
\* sub-mode, the sub-mode stays open for as long as the label does not change:
\* the confirmation that closes it is the first one consumed in its hold
\* episode, so it belongs to a later episode than the one that opened it.
C31_SubModeStaysOpen ==
    [][(ge.is_selecting_difficulty /\ ~ ge'.is_selecting_difficulty) =>
          obs'.acts = 1]_vars

\* C32: after Peace Sign+confirmed has led back to the main menu (from Result
\* or from the difficulty sub-mode), the game requests shutdown only after the
\* label has changed: the Peace Sign confirmation on which the engine posts
\* QUIT is the first one consumed in its hold episode.
C32_NoExitOnSameHold ==
    [][(op' = "frame" /\ ~ events /\ events' /\ obs'.held_gesture = "Peace Sign") =>
          obs'.acts = 1]_vars
\* C33: every gesture-triggered action of update(gesture) happens in a tick
\* where the label passed to update has been that same label on every tick
\* for at least 1.0 s; the hold detector runs before the game, on the same
\* label, so the game never acts on a confirmation of a different label.
\* (An update is gesture-triggered when it differs from the update the label
\* "None" gets in the same state.)
C33_Debounce ==
    \A gesture \in Labels, cc \in Choices :
        LET f     == ProvideVisualFeedback(fb, gesture)
            w     == Update(World(ge, f, highscore_file, FALSE), gesture, cc)
            wNone == Update(World(ge, f, highscore_file, FALSE), "None", cc)
        IN  w # wNone =>
               /\ gesture = obs.held_gesture
               /\ obs.held_for >= HoldThreshold
               /\ f.last_gesture = gesture
               /\ f.gesture_confirmed
               /\ f.gesture_hold_time >= HoldThreshold

\* a Thumbs Up held for 1.0 s has started the game
C33_Witness ==
    /\ op = "frame"
    /\ obs.held_gesture = "Thumbs Up"
    /\ obs.held_for >= HoldThreshold
    /\ obs.acts = 1
    /\ ge.current_state = STATE_TRANSITION
    /\ ge.next_state = STATE_PLAYING
    /\ ge.transition_alpha = 0
----------------------------------------------------------------------------
(* Further properties of the stabilizer (SpecStab) *)

\* C34: in gesture_confidence a label with no occurrence in the window has
\* confidence 0 or is absent (no positive confidence for a label that has left
\* the window), and the entries of the mapping sum to 1 (60 sixtieths).
C34_NoStaleConfidence ==
    op = "stabilize" =>
        /\ \A l \in DOMAIN rec.gesture_confidence :
              l \notin Present(rec.gesture_history) => rec.gesture_confidence[l] = 0
        /\ SumOver(rec.gesture_confidence, DOMAIN rec.gesture_confidence) = 60
----------------------------------------------------------------------------
(* Further properties of the engine (SpecGame, SpecPredict) *)

\* the last-round triple of the engine g is set and consistent
RoundSet(g) ==
    /\ g.user_choice \in {"Rock", "Paper", "Scissors"}
    /\ g.computer_choice \in {"Rock", "Paper", "Scissors"}
    /\ g.result = Outcome(g.user_choice, g.computer_choice)

\* C35: Result is entered only through a resolved round: in every state with
\* current_state = Result (and during the transition into it) user_choice,
\* computer_choice and result are set and result is the rock-paper-scissors
\* outcome of the two choices; a round resolved in Playing makes the engine
\* leave Playing in the same update, so a visit to Playing resolves at most
\* one round.
C35_ResultHasRound ==
    /\ ge.current_state = STATE_RESULT => RoundSet(ge)
    /\ (ge.current_state = STATE_TRANSITION /\ ge.next_state = STATE_RESULT) =>
          RoundSet(ge) /\ ge.previous_state = STATE_PLAYING
    /\ ge.current_state = STATE_PLAYING =>
          /\ ge.user_choice = PyNone /\ ge.computer_choice = PyNone /\ ge.result = PyNone
          /\ \A gesture \in Labels, confirmed \in BOOLEAN, cc \in Choices :
                LET g == After(gesture, confirmed, cc)
                IN  (g.result # PyNone \/ g.player_choice_history # ge.player_choice_history) =>
                       /\ RoundSet(g)
                       /\ g.current_state = STATE_TRANSITION
                       /\ g.next_state = STATE_RESULT
    /\ \A gesture \in Labels, confirmed \in BOOLEAN, cc \in Choices :
          LET g == After(gesture, confirmed, cc)
          IN  (g.next_state = STATE_RESULT /\ ge.next_state # STATE_RESULT) =>
                 ge.current_state = STATE_PLAYING

\* the result screen shows a round the player has lost
C35_Witness ==
    /\ ge.current_state = STATE_RESULT
    /\ ge.user_choice = "Scissors"
    /\ ge.computer_choice = "Rock"
    /\ ge.result = "Computer Wins!"
    /\ ge.computer_score = 1
\* C36: new_highscore_achieved is true only while current_state is Result or
\* a transition into Result is in progress, and whenever it is true high_score
\* equals user_score; it is false in Menu and in Playing.
C36_NewHighScoreFlag ==
    /\ ge.new_highscore_achieved =>
          /\ \/ ge.current_state = STATE_RESULT
             \/ ge.current_state = STATE_TRANSITION /\ ge.next_state = STATE_RESULT
          /\ ge.high_score = ge.user_score
    /\ ge.current_state \in {STATE_MENU, STATE_PLAYING} => ~ ge.new_highscore_achieved
    /\ \A gesture \in Labels, confirmed \in BOOLEAN, cc \in Choices :
          LET g == After(gesture, confirmed, cc)
          IN  g.new_highscore_achieved =>
                 /\ \/ g.current_state = STATE_RESULT
                    \/ g.current_state = STATE_TRANSITION /\ g.next_state = STATE_RESULT
                 /\ g.high_score = g.user_score

\* the result screen of a round that has set a new high score
C36_Witness ==
    /\ ge.current_state = STATE_RESULT
    /\ ge.new_highscore_achieved
    /\ ge.result = "You Win!"
    /\ ge.user_score >= 1
    /\ ge.high_score = ge.user_score
\* C37: the player's choice of the round is appended to the history before
\* the opponent's choice is computed: the history the predictor sees ends with
\* the current choice, and "more than 2 entries" is first met in the third
\* round after Playing was entered from Menu (the history then holds three
\* choices); in rounds 1 and 2 the opponent's choice is the random one.
C37_HistoryHoldsCurrentChoice ==
    /\ [](op \in {"counter", "random"} =>
             /\ ge.player_choice_history # <<>>
             /\ ge.player_choice_history[Len(ge.player_choice_history)] = ge.user_choice
             /\ op = "counter" => Len(ge.player_choice_history) >= 3)
    /\ [](ge.current_state = STATE_PLAYING =>
             \A gesture \in DOMAIN GestureMap, lucky \in BOOLEAN,
                most_frequent \in Choices, pick \in Choices :
                 LET g1 == RecordChoice(ge, gesture)
                     c  == GetComputerChoice(g1, lucky, most_frequent, pick)
                 IN  /\ Len(ge.player_choice_history) < 2 => c = pick
                     /\ (/\ Len(ge.player_choice_history) >= 2
                         /\ ge.difficulty = DIFF_HARD
                         /\ lucky) => c = WinCounters[most_frequent])
    /\ [][/\ Len(ge.player_choice_history) < 2 => op' = "random"
          /\ op' = "counter" =>
                \E m \in MostFrequentChoices(
                          LastFive(Append(ge.player_choice_history, ge'.user_choice))) :
                    Beats(ge'.computer_choice, m)]_vars

\* third round in Hard mode after Rock and Paper: the Paper of this round makes
\* Paper the most frequent choice, and the opponent has countered it
C37_Witness ==
    /\ op = "counter"
    /\ ge.player_choice_history = <<"Rock", "Paper", "Paper">>
    /\ ge.user_choice = "Paper"
    /\ ge.computer_choice = "Scissors"
----------------------------------------------------------------------------
(* Ties in the window (SpecStab) *)

\* the labels that occur most often in the window h
MostFrequentLabels(h) ==
    {l \in Present(h) :
        \A m \in Present(h) :
            Cardinality({i \in 1..Len(h) : h[i] = m})
               <= Cardinality({i \in 1..Len(h) : h[i] = l})}

\* C38: whenever the stable label switches, the new label is the unique most
\* frequent label of the window (confidence >= 0.6 is a strict majority for
\* every window length 1..5), so the value _stabilize_gesture returns does not
\* depend on how ties among equally frequent labels are broken: with a tie
\* the stable label stays as it is.
C38_SwitchToUniqueMode ==
    /\ \A n \in 1..5 : \A k \in 0..n : k * 60 >= ConfThreshold * n => 2 * k > n
    /\ \A raw \in RawLabels :
          LET h   == LastFive(Append(rec.gesture_history, raw))
              r   == Stabilize(rec, raw)
              new == r.current_gesture
          IN  /\ new # rec.current_gesture =>
                    /\ MostFrequentLabels(h) = {new}
                    /\ 2 * Cardinality({i \in 1..Len(h) : h[i] = new}) > Len(h)
              /\ Cardinality(MostFrequentLabels(h)) > 1 => new = rec.current_gesture

\* the stable label has just become Fist on a window with three Fist in five
C38_Witness ==
    /\ op = "stabilize"
    /\ rec.current_gesture = "Fist"
    /\ obs.stable_for = 0
    /\ Len(rec.gesture_history) = 5
    /\ Cardinality({i \in 1..5 : rec.gesture_history[i] = "Fist"}) = 3
    /\ rec.last_gesture_time_ago = 0
----------------------------------------------------------------------------
(* The difficulty sub-mode flag (SpecGame) *)

\* C39: is_selecting_difficulty is true only while current_state is Menu: it
\* is never true in Playing, Result or Transitioning, so the clearing of the
\* flag on entering Menu never changes its value.
C39_SubModeOnlyInMenu ==
    /\ ge.is_selecting_difficulty => ge.current_state = STATE_MENU
    /\ \A gesture \in Labels, confirmed \in BOOLEAN, cc \in Choices :
          LET g == After(gesture, confirmed, cc)
          IN  /\ g.is_selecting_difficulty => g.current_state = STATE_MENU
              /\ (ge.current_state = STATE_TRANSITION /\ g.current_state = STATE_MENU) =>
                    g.is_selecting_difficulty = ge.is_selecting_difficulty

\* the menu has been entered again from the result screen, the flag being false
C39_Witness ==
    /\ ge.current_state = STATE_MENU
    /\ ge.previous_state = STATE_RESULT
    /\ ge.transition_alpha = 255
    /\ ~ ge.is_selecting_difficulty
    /\ ge.selected_option = 0

============================================================================
